---- MODULE Spec2Model ----
(***************************************************************************)
(* Model of src/src/query.js (js-libp2p-kad-dht): one execution of        *)
(* Query.run, with its disjoint paths, the per-path async queue built by  *)
(* workerQueue, execQuery and addPeerToQuery.                              *)
(*                                                                         *)
(* JavaScript runs every callback to completion, so each action below is  *)
(* one callback: run() itself, the completion of PeerQueue.fromKey, the   *)
(* completion of one PeerQueue.enqueue, one setImmediate(q.process) and   *)
(* the return of one path.query invocation.  The handlers are operators   *)
(* over a record s holding the whole mutable state; State packs the       *)
(* variables into that record and Commit unpacks it.                      *)
(***************************************************************************)
EXTENDS Integers, Sequences, FiniteSets

\* ------------------------------------------------------------ bounds
\* peers other than the local node are 1..NumPeers
NumPeers == 4
\* longest seed list passed to run()
MaxSeeds == 2
\* largest numPaths passed to run()
MaxPaths == 2
\* longest closerPeers list a queried peer returns
MaxCloser == 2
\* query.concurrency (c.ALPHA), scaled so that the limit binds within NumPeers
ALPHA == 2

\* ------------------------------------------------------------ values
\* dht._isSelf(id) is id = Self
Self == 0
Peers == 1..NumPeers
Ids == 0..NumPeers

\* an optional value (undefined / null, or a value) is a sequence of length <= 1
None == <<>>
Some(v) == <<v>>

\* the error a query function reports for peer p
QueryErr(p) == [type |-> "query", peer |-> p]
\* the error PeerQueue.fromKey reports on path i
FromKeyErr(i) == [type |-> "fromKey", peer |-> i]
\* the error peersToQuery.enqueue reports for peer p
EnqueueErr(p) == [type |-> "enqueue", peer |-> p]

\* the success result of path i's query function for peer p
Payload(i, p) == [success |-> TRUE, path |-> i, peer |-> p]

Min(a, b) == IF a < b THEN a ELSE b

\* the sequence q without its k-th element
RemoveAt(q, k) == SubSeq(q, 1, k - 1) \o SubSeq(q, k + 1, Len(q))

\* ------------------------------------------------------------ PeerQueue
\* distance of a peer's key to the query key: an injective map of the ids
Dist(p) == (3 * p + 2) % (NumPeers + 3)

\* heap.push: the queue stays ordered by distance, ties after the present ones
RECURSIVE HeapPush(_, _)
HeapPush(q, p) ==
  IF q = <<>> THEN <<p>>
  ELSE IF Dist(p) < Dist(Head(q)) THEN <<p>> \o q
  ELSE <<Head(q)>> \o HeapPush(Tail(q), p)

\* ------------------------------------------------------------ state
VARIABLES
  \* the arguments of run(): [peers, numPaths]; None before run() is called
  args,
  \* run.paths: the path states, indexed 0..n-1 (empty before run())
  paths,
  \* run.peersSeen
  peersSeen,
  \* run.errors
  errors,
  \* async.each over run.paths: how many paths have completed without error
  completed,
  \* async.each over run.paths: its final callback has been invoked
  finalCalled,
  \* what the caller's callback received: [calls, err, res, kind]
  outcome,
  \* history: admitted[p] counts the admissions of p (peersSeen.add + enqueue)
  admitted,
  \* history: queried[p] counts the path.query invocations for p
  queried,
  \* history: [factoryCalls, firstAdmitted, firstReturned, nonFailure,
  \*           setupFailed, setupErr, enqueueFailed, uncaught, selfOffered,
  \*           crossOffered]
  hist

vars == <<args, paths, peersSeen, errors, completed, finalCalled, outcome,
          admitted, queried, hist>>

State ==
  [args |-> args, paths |-> paths, peersSeen |-> peersSeen, errors |-> errors,
   completed |-> completed, finalCalled |-> finalCalled, outcome |-> outcome,
   admitted |-> admitted, queried |-> queried, hist |-> hist, threw |-> FALSE]

Commit(s) ==
  /\ args' = s.args
  /\ paths' = s.paths
  /\ peersSeen' = s.peersSeen
  /\ errors' = s.errors
  /\ completed' = s.completed
  /\ finalCalled' = s.finalCalled
  /\ outcome' = s.outcome
  /\ admitted' = s.admitted
  /\ queried' = s.queried
  /\ hist' = s.hist

PathIds == DOMAIN paths

\* one entry of run.paths as run() builds it, with the state of the queue that
\* workerQueue creates for it
NewPath(bucket) ==
  [peers |-> bucket,
   \* "fromKey": PeerQueue.fromKey pending; "seeding": seed enqueues pending;
   \* "working": workerQueue has run; "aborted": the waterfall ended in an error
   stage |-> "fromKey",
   \* path.peersToQuery, closest first
   peersToQuery |-> <<>>,
   \* seed peers whose enqueue is pending
   seedPending |-> <<>>,
   \* enqueues still pending of an each() that has already reported an error
   orphans |-> <<>>,
   \* q._tasks: pushed and not started
   tasks |-> <<>>,
   \* started workers whose callback has not been invoked:
   \* [peer, phase ("query" | "each"), pending]
   workers |-> <<>>,
   numRunning |-> 0,
   \* a setImmediate(q.process) is pending
   processScheduled |-> FALSE,
   killed |-> FALSE,
   \* path.res
   res |-> None,
   \* how often workerQueue's callback was invoked
   cbCalls |-> 0,
   \* history: the error workerQueue's callback was first invoked with
   cbErr |-> None,
   \* history: the peers this path's query function reported success for
   successes |-> {},
   \* history: peers dispatched on this path after it recorded success
   lateStarts |-> 0]

Init ==
  /\ args = None
  /\ paths = <<>>
  /\ peersSeen = {}
  /\ errors = <<>>
  /\ completed = 0
  /\ finalCalled = FALSE
  /\ outcome = [calls |-> 0, err |-> None, res |-> None, kind |-> "none"]
  /\ admitted = [p \in Ids |-> 0]
  /\ queried = [p \in Ids |-> 0]
  /\ hist = [factoryCalls |-> 0, firstAdmitted |-> None, firstReturned |-> None,
             nonFailure |-> FALSE, setupFailed |-> FALSE,
             \* the first error of a frontier construction or seed admission
             setupErr |-> None,
             enqueueFailed |-> FALSE, uncaught |-> 0,
             \* the local node was among the closer peers of some result
             selfOffered |-> FALSE,
             \* a closer peer of one path's result was held by another path
             crossOffered |-> FALSE]

\* ------------------------------------------------------------ Query.run
\* run() without the clamp of numPaths
NoClamp(numPaths, len) == numPaths

\* run(): peers.length === 0
NoPeers(peers) == Len(peers) = 0

\* run(): numPaths = Math.min(numPaths, peers.length)
ClampPaths(numPaths, len) == Min(numPaths, len)

\* run(): pathPeers after peers.forEach has pushed the peers at indices < k
\* (0-based) into pathPeers[index % numPaths]
RECURSIVE PathPeers(_, _, _)
PathPeers(peers, numPaths, k) ==
  IF k = 0 THEN [b \in 0..(numPaths - 1) |-> <<>>]
  ELSE LET before == PathPeers(peers, numPaths, k - 1)
           b == (k - 1) % numPaths
       IN [before EXCEPT ![b] = Append(@, peers[k])]

\* run() reporting an empty seed list as an error
NoPeersIsError(calls) ==
  [calls |-> calls + 1, err |-> Some(FromKeyErr(0)), res |-> None,
   kind |-> "error"]

\* run(): what callback() hands the caller when there are no peers
NoPeersOutcome(calls) ==
  [calls |-> calls + 1, err |-> None, res |-> None, kind |-> "empty"]

\* ------------------------------------------------------------ addPeerToQuery
\* addPeerToQuery without the run.peersSeen.has(next) return
AdmitSeenAgain(next, seen) == next # Self

\* addPeerToQuery without the dht._isSelf(next) return
AdmitSelf(next, seen) == next \notin seen

\* addPeerToQuery: neither of its two early returns is taken
ShouldAdmit(next, seen) == next # Self /\ next \notin seen

\* each(list, addPeerToQuery): the iteratee runs for every element in order
\* before any enqueue completes; the result is the peers whose enqueue started
RECURSIVE Admitted(_, _)
Admitted(list, seen) ==
  IF list = <<>> THEN <<>>
  ELSE IF ShouldAdmit(Head(list), seen)
       THEN <<Head(list)>> \o Admitted(Tail(list), seen \cup {Head(list)})
       ELSE Admitted(Tail(list), seen)

Range(q) == {q[k] : k \in 1..Len(q)}

Count(q, p) == Cardinality({k \in 1..Len(q) : q[k] = p})

\* addPeerToQuery: run.peersSeen.add(next) for the peers whose enqueue starts
Admit(s, started) ==
  [s EXCEPT
     !.peersSeen = @ \cup Range(started),
     !.admitted = [p \in Ids |-> @[p] + Count(started, p)],
     !.hist.firstAdmitted =
        IF @ = None /\ started # <<>> THEN Some(Head(started)) ELSE @]

\* execQuery: the closer peers that reach addPeerToQuery
CloserToAdmit(closer) == SelectSeq(closer, LAMBDA c : c # Self)

\* ------------------------------------------------------------ Query.run, completion
\* run() collecting the path results last path first
RECURSIVE ResPathsReversed(_, _)
ResPathsReversed(ps, k) ==
  IF k \notin DOMAIN ps THEN <<>>
  ELSE ResPathsReversed(ps, k + 1)
       \o (IF ps[k].res # None /\ ps[k].res[1].success THEN ps[k].res ELSE <<>>)

\* run(): the list of path results pushed into run.res.paths, for paths k..
RECURSIVE ResPaths(_, _)
ResPaths(ps, k) ==
  IF k \notin DOMAIN ps THEN <<>>
  ELSE (IF ps[k].res # None /\ ps[k].res[1].success THEN ps[k].res ELSE <<>>)
       \o ResPaths(ps, k + 1)

\* run() surfacing the error recorded last
LastError(errs) == IF errs = <<>> THEN None ELSE Some(errs[Len(errs)])

\* run(): errors[0], undefined when there is none
FirstError(errs) == IF errs = <<>> THEN None ELSE Some(errs[1])

\* run() taking the run-failure branch as soon as one query has failed
AnyFailed(errs, seen) == Len(errs) >= 1

\* run() never taking the run-failure branch
NeverAllFailed(errs, seen) == FALSE

\* run(): run.errors.length === run.peersSeen.size
AllFailed(errs, seen) == Len(errs) = Cardinality(seen)

\* run(): the final callback of each(run.paths, ...), wrapped in once()
Final(s, err) ==
  IF s.finalCalled THEN s
  ELSE LET t == [s EXCEPT !.finalCalled = TRUE]
           n == s.outcome.calls + 1
       IN IF err # None
          THEN [t EXCEPT !.outcome =
                  [calls |-> n, err |-> err, res |-> None, kind |-> "error"]]
          ELSE IF AllFailed(s.errors, s.peersSeen)
          THEN [t EXCEPT !.outcome =
                  [calls |-> n, err |-> FirstError(s.errors), res |-> None,
                   kind |-> "runfail"]]
          ELSE [t EXCEPT !.outcome =
                  [calls |-> n, err |-> None,
                   res |-> Some([paths |-> ResPaths(s.paths, 0)]),
                   kind |-> "result"]]

\* async.each replaced by a race: the first path to call back ends the run
FirstPathEnds(done, n) == done >= 1

\* async.each over run.paths: every path has called back without an error
EachComplete(done, n) == done = n

\* async.each with the error of a path dropped: the path counts as done
PathEndedSwallow(s, err) ==
  LET t == [s EXCEPT !.completed = @ + 1]
  IN IF EachComplete(t.completed, Cardinality(DOMAIN s.paths))
     THEN Final(t, None) ELSE t

\* async.each over run.paths: the callback one path's waterfall ends with
PathEnded(s, err) ==
  IF err # None THEN Final(s, err)
  ELSE LET t == [s EXCEPT !.completed = @ + 1]
       IN IF EachComplete(t.completed, Cardinality(DOMAIN s.paths))
          THEN Final(t, None) ELSE t

\* workerQueue's callback, the onlyOnce-wrapped continuation of the waterfall:
\* a second invocation throws
PathCallback(s, i, err) ==
  IF s.paths[i].cbCalls > 0
  THEN [s EXCEPT !.paths[i].cbCalls = @ + 1, !.hist.uncaught = @ + 1,
                 !.threw = TRUE]
  ELSE PathEnded([s EXCEPT !.paths[i].cbCalls = 1, !.paths[i].cbErr = err], err)

\* ------------------------------------------------------------ workerQueue
\* fill() never pushing a peer
NoFill(waiting, frontier) == FALSE

\* fill(): the loop condition
FillMore(waiting, frontier) == waiting < ALPHA /\ frontier > 0

\* fill(): q.push(path.peersToQuery.dequeue()) while the condition holds; each
\* push schedules q.process with setImmediate
RECURSIVE Fill(_, _)
Fill(s, i) ==
  LET f == s.paths[i] IN
  IF FillMore(Len(f.tasks), Len(f.peersToQuery))
  THEN Fill([s EXCEPT !.paths[i].tasks = Append(@, Head(f.peersToQuery)),
                      !.paths[i].peersToQuery = Tail(@),
                      !.paths[i].processScheduled = TRUE], i)
  ELSE s

\* q.process() without the concurrency test
StartAll(numRunning, waiting) == waiting > 0

\* q.process(): the loop condition (the queue is never paused)
CanStart(numRunning, waiting) == numRunning < ALPHA /\ waiting > 0

\* q.process(): start workers; a worker calls execQuery, which invokes
\* path.query(next, ...) and returns
RECURSIVE Process(_, _)
Process(s, i) ==
  LET f == s.paths[i] IN
  IF CanStart(f.numRunning, Len(f.tasks))
  THEN LET next == Head(f.tasks) IN
       Process([s EXCEPT
                  !.paths[i].tasks = Tail(@),
                  !.paths[i].numRunning = @ + 1,
                  !.paths[i].workers =
                     Append(@, [peer |-> next, phase |-> "query", pending |-> <<>>]),
                  !.paths[i].lateStarts = IF f.res # None THEN @ + 1 ELSE @,
                  !.queried[next] = @ + 1], i)
  ELSE s

\* q.kill(): q.drain = noop; q._tasks.empty()
Kill(f) == [f EXCEPT !.tasks = <<>>]

\* q.idle()
Idle(f) == Len(f.tasks) + f.numRunning = 0

\* the queue's completion of one worker (the cb handed to the worker): count it
\* out, report err through q.error, then unsaturated, drain when idle, process.
\* q.drain is workerQueue's until q.kill() replaces it; an exception thrown by a
\* handler ends the function there.
QNext(s, i, err) ==
  LET s1 == [s EXCEPT !.paths[i].numRunning = @ - 1]
      s2 == IF err # None THEN PathCallback(s1, i, err) ELSE s1
      s3 == IF s2.paths[i].numRunning <= ALPHA THEN Fill(s2, i) ELSE s2
      s4 == IF Idle(s3.paths[i]) /\ ~s3.paths[i].killed
            THEN PathCallback(s3, i, None) ELSE s3
  IN IF s2.threw THEN s2
     ELSE IF s4.threw THEN s4
     ELSE Process(s4, i)

\* the callback the worker gives execQuery (err, done)
WorkerCb(s, i, err, done) ==
  IF s.paths[i].killed THEN QNext(s, i, None)
  ELSE IF err # None THEN QNext(s, i, err)
  ELSE IF done
  THEN PathCallback([s EXCEPT !.paths[i] = [Kill(@) EXCEPT !.killed = TRUE]],
                    i, None)
  ELSE QNext(s, i, None)

\* workerQueue(): create the queue and fill() it
WorkerQueue(s, i) == Fill([s EXCEPT !.paths[i].stage = "working"], i)

\* the peers path f holds: enqueue pending, in its frontier, pushed to its
\* queue or being queried
Holds(f) ==
  Range(f.seedPending) \cup Range(f.orphans) \cup Range(f.peersToQuery)
    \cup Range(f.tasks) \cup {f.workers[w].peer : w \in DOMAIN f.workers}
    \cup UNION {Range(f.workers[w].pending) : w \in DOMAIN f.workers}

\* ------------------------------------------------------------ inputs
SeqsUpTo(S, n) == UNION {[1..k -> S] : k \in 0..n}

\* the seed lists run() is called with: the local node may be among them
SeedLists == SeqsUpTo(Ids, MaxSeeds)

\* the non-empty closerPeers lists a queried peer returns
CloserLists == SeqsUpTo(Ids, MaxCloser) \ {<<>>}

\* ------------------------------------------------------------ actions
\* run(peers, numPaths, callback), up to the start of PeerQueue.fromKey on
\* every path
Run(peers, numPaths) ==
  /\ args = None
  /\ LET s == [State EXCEPT !.args = Some([peers |-> peers, numPaths |-> numPaths])]
     IN IF NoPeers(peers)
        THEN Commit([s EXCEPT !.outcome = NoPeersOutcome(@.calls)])
        ELSE LET n == ClampPaths(numPaths, Len(peers))
                 buckets == PathPeers(peers, n, Len(peers))
                 t == [s EXCEPT !.paths = [i \in 0..(n - 1) |-> NewPath(buckets[i])],
                                !.hist.factoryCalls = n]
             IN Commit(IF n = 0 THEN Final(t, None) ELSE t)

\* waterfall step 1 and 2: PeerQueue.fromKey calls back; on success the seeds of
\* the path go through addPeerToQuery
FromKeyDone(i, ok) ==
  /\ i \in PathIds
  /\ paths[i].stage = "fromKey"
  /\ IF ok
     THEN LET started == Admitted(paths[i].peers, peersSeen)
              s == Admit(State, started)
          IN Commit(IF started = <<>>
                    THEN WorkerQueue(s, i)
                    ELSE [s EXCEPT !.paths[i].stage = "seeding",
                                   !.paths[i].seedPending = started])
     ELSE Commit(PathEnded([State EXCEPT
                              !.paths[i].stage = "aborted",
                              !.hist.setupFailed = TRUE,
                              !.hist.setupErr =
                                 IF @ = None THEN Some(FromKeyErr(i)) ELSE @],
                           Some(FromKeyErr(i))))

\* the enqueue of one seed calls back; after the last one workerQueue starts
SeedEnqueued(i, k, ok) ==
  /\ i \in PathIds
  /\ paths[i].stage = "seeding"
  /\ k \in 1..Len(paths[i].seedPending)
  /\ LET p == paths[i].seedPending[k]
         rest == RemoveAt(paths[i].seedPending, k)
     IN IF ok
        THEN LET s == [State EXCEPT !.paths[i].peersToQuery = HeapPush(@, p),
                                    !.paths[i].seedPending = rest]
             IN Commit(IF rest = <<>> THEN WorkerQueue(s, i) ELSE s)
        ELSE Commit(PathEnded([State EXCEPT !.paths[i].stage = "aborted",
                                            !.paths[i].seedPending = <<>>,
                                            !.paths[i].orphans = @ \o rest,
                                            !.hist.setupFailed = TRUE,
                                            !.hist.setupErr =
                                               IF @ = None
                                               THEN Some(EnqueueErr(p)) ELSE @],
                              Some(EnqueueErr(p))))

\* an enqueue calls back whose each() has already reported an error
OrphanEnqueued(i, k, ok) ==
  /\ i \in PathIds
  /\ k \in 1..Len(paths[i].orphans)
  /\ LET p == paths[i].orphans[k]
     IN Commit([State EXCEPT
                  !.paths[i].orphans = RemoveAt(@, k),
                  !.paths[i].peersToQuery = IF ok THEN HeapPush(@, p) ELSE @])

\* a pending setImmediate(q.process) runs
ProcessTick(i) ==
  /\ i \in PathIds
  /\ paths[i].processScheduled
  /\ Commit(Process([State EXCEPT !.paths[i].processScheduled = FALSE], i))

\* the state when worker w of path i is about to invoke its callback
Returned(s, i, w) ==
  [s EXCEPT !.paths[i].workers = RemoveAt(@, w),
            !.hist.firstReturned =
               IF @ = None THEN Some(s.paths[i].workers[w].peer) ELSE @]

InQuery(i, w) ==
  /\ i \in PathIds
  /\ w \in 1..Len(paths[i].workers)
  /\ paths[i].workers[w].phase = "query"

\* execQuery handing the query's error on to the worker's callback
FailureRaised(err) == Some(err)

\* execQuery: after run.errors.push(err) the worker's callback gets no error
FailureReport(err) == None

\* execQuery: path.query calls back with an error
QueryFails(i, w) ==
  /\ InQuery(i, w)
  /\ LET p == paths[i].workers[w].peer
         s == [Returned(State, i, w) EXCEPT !.errors = Append(@, QueryErr(p))]
     IN Commit(WorkerCb(s, i, FailureReport(QueryErr(p)), FALSE))

\* execQuery: path.query calls back with res.success
QuerySucceeds(i, w) ==
  /\ InQuery(i, w)
  /\ LET p == paths[i].workers[w].peer
         s == [Returned(State, i, w) EXCEPT
                 !.paths[i].res = Some(Payload(i, p)),
                 !.paths[i].successes = @ \cup {p},
                 !.hist.nonFailure = TRUE]
     IN Commit(WorkerCb(s, i, None, TRUE))

\* execQuery: path.query calls back with a non-empty res.closerPeers
QueryCloser(i, w, closer) ==
  /\ InQuery(i, w)
  /\ LET started == Admitted(CloserToAdmit(closer), peersSeen)
         s == [Admit(State, started) EXCEPT
                 !.hist.nonFailure = TRUE,
                 !.hist.selfOffered = @ \/ Self \in Range(closer),
                 !.hist.crossOffered =
                    @ \/ \E j \in PathIds \ {i} : Range(closer) \cap Holds(paths[j]) # {}]
     IN Commit(IF started = <<>>
               THEN WorkerCb(Returned(s, i, w), i, None, FALSE)
               ELSE [s EXCEPT !.paths[i].workers[w].phase = "each",
                              !.paths[i].workers[w].pending = started,
                              !.hist.firstReturned =
                                 IF @ = None THEN Some(paths[i].workers[w].peer)
                                 ELSE @])

\* execQuery: path.query calls back with neither success nor closer peers
QueryEmpty(i, w) ==
  /\ InQuery(i, w)
  /\ Commit(WorkerCb([Returned(State, i, w) EXCEPT !.hist.nonFailure = TRUE],
                     i, None, FALSE))

\* execQuery: the enqueue of one closer peer calls back
CloserEnqueued(i, w, k, ok) ==
  /\ i \in PathIds
  /\ w \in 1..Len(paths[i].workers)
  /\ paths[i].workers[w].phase = "each"
  /\ k \in 1..Len(paths[i].workers[w].pending)
  /\ LET p == paths[i].workers[w].pending[k]
         rest == RemoveAt(paths[i].workers[w].pending, k)
     IN IF ok
        THEN LET s == [State EXCEPT !.paths[i].peersToQuery = HeapPush(@, p),
                                    !.paths[i].workers[w].pending = rest]
             IN Commit(IF rest = <<>>
                       THEN WorkerCb([s EXCEPT !.paths[i].workers = RemoveAt(@, w)],
                                     i, None, FALSE)
                       ELSE s)
        ELSE Commit(WorkerCb([State EXCEPT
                                !.paths[i].workers = RemoveAt(@, w),
                                !.paths[i].orphans = @ \o rest,
                                !.hist.enqueueFailed = TRUE],
                             i, Some(EnqueueErr(p)), FALSE))


Next ==
  \/ \E peers \in SeedLists, numPaths \in 1..MaxPaths : Run(peers, numPaths)
  \/ \E i \in PathIds, ok \in BOOLEAN : FromKeyDone(i, ok)
  \/ \E i \in PathIds : \E k \in DOMAIN paths[i].seedPending, ok \in BOOLEAN :
        SeedEnqueued(i, k, ok)
  \/ \E i \in PathIds : \E k \in DOMAIN paths[i].orphans, ok \in BOOLEAN :
        OrphanEnqueued(i, k, ok)
  \/ \E i \in PathIds : ProcessTick(i)
  \/ \E i \in PathIds : \E w \in DOMAIN paths[i].workers : QueryFails(i, w)
  \/ \E i \in PathIds : \E w \in DOMAIN paths[i].workers : QuerySucceeds(i, w)
  \/ \E i \in PathIds : \E w \in DOMAIN paths[i].workers, closer \in CloserLists :
        QueryCloser(i, w, closer)
  \/ \E i \in PathIds : \E w \in DOMAIN paths[i].workers : QueryEmpty(i, w)
  \/ \E i \in PathIds : \E w \in DOMAIN paths[i].workers :
        \E k \in DOMAIN paths[i].workers[w].pending, ok \in BOOLEAN :
           CloserEnqueued(i, w, k, ok)

Spec == Init /\ [][Next]_vars

\* The runs checked for progress: one or two distinct seeds, and closerPeers
\* lists in ascending order (the enqueues of one list complete in any order)
FairSeeds == {<<1>>, <<1, 2>>}

FairCloserLists ==
  {c \in CloserLists : \A k \in 1..(Len(c) - 1) : c[k] < c[k + 1]}

NextFair ==
  \/ \E peers \in FairSeeds, numPaths \in 1..MaxPaths : Run(peers, numPaths)
  \/ \E i \in PathIds, ok \in BOOLEAN : FromKeyDone(i, ok)
  \/ \E i \in PathIds : \E k \in DOMAIN paths[i].seedPending, ok \in BOOLEAN :
        SeedEnqueued(i, k, ok)
  \/ \E i \in PathIds : \E k \in DOMAIN paths[i].orphans, ok \in BOOLEAN :
        OrphanEnqueued(i, k, ok)
  \/ \E i \in PathIds : ProcessTick(i)
  \/ \E i \in PathIds : \E w \in DOMAIN paths[i].workers : QueryFails(i, w)
  \/ \E i \in PathIds : \E w \in DOMAIN paths[i].workers : QuerySucceeds(i, w)
  \/ \E i \in PathIds : \E w \in DOMAIN paths[i].workers, closer \in FairCloserLists :
        QueryCloser(i, w, closer)
  \/ \E i \in PathIds : \E w \in DOMAIN paths[i].workers : QueryEmpty(i, w)
  \/ \E i \in PathIds : \E w \in DOMAIN paths[i].workers :
        \E k \in DOMAIN paths[i].workers[w].pending, ok \in BOOLEAN :
           CloserEnqueued(i, w, k, ok)

\* The event loop runs every callback that is due, and every fromKey, enqueue
\* and query-function invocation calls back: the program does not stand still
\* while a callback is outstanding. Every run is finite, so this is all the
\* fairness there is to ask for.
SpecFair == Init /\ [][NextFair]_vars /\ WF_vars(NextFair)

\* run() alone, on longer seed lists and more paths: the partition of the seeds
MaxRunSeeds == 4
MaxRunPaths == 3

NextRun ==
  /\ args = None
  /\ \E peers \in SeqsUpTo(Ids, MaxRunSeeds), numPaths \in 1..MaxRunPaths :
        Run(peers, numPaths)

SpecRun == Init /\ [][NextRun]_vars

\* ------------------------------------------------------------ properties
\* path.query invocations of path f that have not called back
InFlight(f) == Cardinality({w \in DOMAIN f.workers : f.workers[w].phase = "query"})

\* how often path f holds p: enqueue pending, in the frontier, pushed or queried
HeldBy(f, p) ==
  Count(f.seedPending, p) + Count(f.orphans, p) + Count(f.peersToQuery, p)
    + Count(f.tasks, p)
    + Cardinality({w \in DOMAIN f.workers : f.workers[w].peer = p})
    + Cardinality({<<w, k>> \in (DOMAIN f.workers) \X (1..(NumPeers + 1)) :
                     k \in DOMAIN f.workers[w].pending
                       /\ f.workers[w].pending[k] = p})

RECURSIVE HeldFrom(_, _)
HeldFrom(p, k) ==
  IF k \notin PathIds THEN 0 ELSE HeldBy(paths[k], p) + HeldFrom(p, k + 1)

Seeds == args[1].peers

\* C1: every peer identifier is admitted at most once, is held by at most one
\* path (enqueue pending, frontier, queue or worker) at most once, and is
\* passed to a query function at most once in the run.
DedupInvariant ==
  \A p \in Ids : admitted[p] <= 1 /\ queried[p] <= 1 /\ HeldFrom(p, 0) <= 1

\* C1 witness: with two paths, a result of one path named a peer another path
\* held, and every peer seen has been queried, each exactly once.
DedupWitness ==
  /\ Cardinality(PathIds) = 2
  /\ hist.crossOffered
  /\ peersSeen # {}
  /\ \A p \in peersSeen : queried[p] = 1

\* C2: on every path at most ALPHA query-function invocations are in flight.
ConcurrencyBound == \A i \in PathIds : InFlight(paths[i]) <= ALPHA

\* C2 witness: ALPHA queries in flight on a path while a pushed task waits.
ConcurrencyWitness ==
  \E i \in PathIds : InFlight(paths[i]) = ALPHA /\ paths[i].tasks # <<>>

\* C3: no peer is dispatched on a path after that path has recorded success.
NoDispatchAfterSuccess == \A i \in PathIds : paths[i].lateStarts = 0

\* C4 as stated: with a non-empty seed list and no query result other than
\* failure, a completed run has an error and no result, and the error is
\* run.errors[0].
AllFailOriginal ==
  (outcome.calls > 0 /\ Seeds # <<>> /\ ~hist.nonFailure)
    => /\ outcome.err # None
       /\ outcome.res = None
       /\ errors # <<>>
       /\ outcome.err = Some(errors[1])

\* C4: the same, for runs in which no frontier construction and no seed
\* admission failed.
AllFailAmended ==
  (outcome.calls > 0 /\ Seeds # <<>> /\ ~hist.nonFailure /\ ~hist.setupFailed)
    => /\ outcome.err # None
       /\ outcome.res = None
       /\ errors # <<>>
       /\ outcome.err = Some(errors[1])

\* C4 witness: a run over two paths ended in run-failure after two failures.
AllFailWitness ==
  /\ Cardinality(PathIds) = 2
  /\ outcome.kind = "runfail"
  /\ Len(errors) >= 2
  /\ ~hist.nonFailure

\* C5 as stated: the run-failure error is the failure of the peer admitted first.
FirstAdmittedError ==
  outcome.kind = "runfail"
    => hist.firstAdmitted # None
       /\ outcome.err = Some(QueryErr(hist.firstAdmitted[1]))

\* C5: the run-failure error is the failure of the peer whose query function
\* called back first, whichever peer was admitted first.
FirstReturnedError ==
  outcome.kind = "runfail"
    => hist.firstReturned # None
       /\ outcome.err = Some(QueryErr(hist.firstReturned[1]))

\* C5 witness: a run-failure whose first failure is not the first admitted peer's.
FirstReturnedWitness ==
  /\ outcome.kind = "runfail"
  /\ hist.firstReturned # hist.firstAdmitted
  /\ Len(errors) >= 2

\* C6: a delivered result's finalSet (the run.peersSeen object) is the set of
\* admitted peers, and its paths list holds, in ascending path order, one
\* payload of each path that reported success and nothing else.
ResultContents ==
  outcome.kind = "result" =>
    LET list == outcome.res[1].paths IN
    /\ peersSeen = {p \in Ids : admitted[p] >= 1}
    /\ \A k \in 1..Len(list) :
         /\ list[k].path \in PathIds
         /\ list[k].peer \in paths[list[k].path].successes
    /\ \A k \in 1..(Len(list) - 1) : list[k].path < list[k + 1].path
    /\ {list[k].path : k \in 1..Len(list)}
         = {i \in PathIds : paths[i].successes # {}}

\* C6 witness: the second path succeeded after a closer-peers hop that
\* introduced a new peer, the first path exhausted its frontier.
ResultWitness ==
  /\ outcome.kind = "result"
  /\ Cardinality(PathIds) = 2
  /\ Len(outcome.res[1].paths) = 1
  /\ outcome.res[1].paths[1].path = 1
  /\ paths[0].successes = {}
  /\ peersSeen \ Range(Seeds) # {}

\* C7: run() creates min(numPaths, len) paths, seed index i goes to bucket
\* i mod that number at position i div that number, no bucket is empty and the
\* buckets hold as many peers as the seed list.
PartitionCoverage ==
  (args # None /\ Seeds # <<>>) =>
    LET len == Len(Seeds)
        n == IF args[1].numPaths < len THEN args[1].numPaths ELSE len
    IN /\ PathIds = 0..(n - 1)
       /\ \A b \in PathIds :
            /\ Len(paths[b].peers) >= 1
            /\ Len(paths[b].peers) = Cardinality({x \in 0..(len - 1) : x % n = b})
       /\ \A x \in 0..(len - 1) :
            /\ (x \div n) + 1 \in DOMAIN paths[x % n].peers
            /\ paths[x % n].peers[(x \div n) + 1] = Seeds[x + 1]

\* C7 witness: four seeds over three paths, the first and the last seed equal.
PartitionWitness ==
  /\ args # None
  /\ Len(Seeds) = 4
  /\ args[1].numPaths = 3
  /\ Seeds[1] = Seeds[4]
  /\ Len(paths[0].peers) = 2

\* C8: the local identity is never seen, held by a path or queried.
NoSelfQuery ==
  /\ Self \notin peersSeen
  /\ admitted[Self] = 0
  /\ queried[Self] = 0
  /\ \A i \in PathIds : Self \notin Holds(paths[i])

\* C8 witness: the local identity was a seed and a closer peer, and the paths
\* are past the admission of their seeds.
NoSelfWitness ==
  /\ args # None
  /\ Self \in Range(Seeds)
  /\ hist.selfOffered
  /\ \A i \in PathIds : paths[i].stage = "working"
  /\ peersSeen # {}

\* C9: run() on an empty seed list has called back once, without error or
\* result, and has created no path, made no query function and no query.
EmptyRun ==
  (args # None /\ Seeds = <<>>) =>
    /\ outcome.calls = 1
    /\ outcome.err = None
    /\ outcome.res = None
    /\ PathIds = {}
    /\ hist.factoryCalls = 0
    /\ \A p \in Ids : queried[p] = 0 /\ admitted[p] = 0

\* C9 witness: run() was called with an empty seed list.
EmptyRunWitness == args # None /\ Seeds = <<>> /\ outcome.calls = 1

\* a path has recorded success, or has nothing queued, pushed or running
PathComplete(f) ==
  \/ f.res # None
  \/ /\ f.stage = "working"
     /\ f.peersToQuery = <<>>
     /\ f.tasks = <<>>
     /\ f.numRunning = 0

AllPathsComplete == \A i \in PathIds : PathComplete(paths[i])

\* the step in which run() hands an outcome to the caller
Delivers == outcome.calls = 0 /\ outcome'.calls > 0

\* C10 as stated: when no frontier construction and no seed admission has
\* failed, every path is complete in the state in which the outcome is
\* delivered.
CompleteBeforeOutcome ==
  [][(Delivers /\ Seeds' # <<>> /\ ~hist'.setupFailed) => AllPathsComplete']_vars

\* a step in which a path records its success changes no other path
SuccessIsLocal ==
  \A i \in PathIds :
    (paths[i].res = None /\ paths'[i].res # None)
      => \A j \in PathIds \ {i} : paths'[j] = paths[j]

\* C10: an outcome that is a result or a run-failure (no error of frontier
\* construction or of an enqueue was propagated) is delivered only when every
\* path is complete, and a success on one path changes nothing on the others.
CompleteBeforeOutcomeAmended ==
  /\ [](outcome.kind \in {"result", "runfail"} => AllPathsComplete)
  /\ [][SuccessIsLocal]_vars

\* C10 witness: the first path has succeeded and called back, the run has not
\* completed and the second path has a query in flight.
CompleteWitness ==
  /\ Cardinality(PathIds) = 2
  /\ paths[0].res # None
  /\ paths[0].cbCalls = 1
  /\ outcome.calls = 0
  /\ paths[1].res = None
  /\ InFlight(paths[1]) >= 1

\* C11 as stated: once a frontier construction or a seed admission has failed,
\* run() has completed with exactly that error and without a result.
SetupErrorOutcome ==
  hist.setupFailed =>
    /\ outcome.calls = 1
    /\ outcome.kind = "error"
    /\ outcome.err = hist.setupErr
    /\ outcome.res = None

\* C11: once a frontier construction or a seed admission has failed, run() has
\* completed exactly once with an error and without a result; the error is
\* never one of run.errors: it is the first setup error, unless the enqueue
\* of a closer peer failed on another path before and its error was delivered.
SetupErrorOutcomeAmended ==
  hist.setupFailed =>
    /\ outcome.calls = 1
    /\ outcome.kind = "error"
    /\ outcome.res = None
    /\ \A k \in DOMAIN errors : outcome.err # Some(errors[k])
    /\ \/ outcome.err = hist.setupErr
       \/ /\ hist.enqueueFailed
          /\ outcome.err[1].type = "enqueue"

\* C11 witness: the second path's seed admission failed while the first path,
\* whose query has failed already, was still working; run() has completed with
\* that setup error.
SetupErrorWitness ==
  /\ Cardinality(PathIds) = 2
  /\ hist.setupFailed
  /\ ~hist.enqueueFailed
  /\ paths[1].stage = "aborted"
  /\ paths[0].stage = "working"
  /\ errors # <<>>
  /\ outcome.calls = 1
  /\ outcome.err = hist.setupErr
  /\ outcome.err[1].type = "enqueue"

\* a callback of the path is outstanding: frontier construction, an enqueue,
\* a scheduled q.process or a query
PathPending(f) ==
  \/ f.stage \in {"fromKey", "seeding"}
  \/ f.orphans # <<>>
  \/ f.processScheduled
  \/ f.workers # <<>>

\* C12: a path whose scheduler has started and which has an empty frontier,
\* nothing pushed, nothing running and no callback outstanding has signalled
\* completion to the coordinator.
EmptyFrontierCompletes ==
  \A i \in PathIds :
    (/\ paths[i].stage = "working"
     /\ paths[i].peersToQuery = <<>>
     /\ paths[i].tasks = <<>>
     /\ paths[i].numRunning = 0
     /\ ~PathPending(paths[i]))
      => paths[i].cbCalls >= 1

\* the peers path f has passed to its query function and not heard back from
Querying(f) ==
  {f.workers[w].peer : w \in {v \in DOMAIN f.workers : f.workers[v].phase = "query"}}

\* a step in which the query function calls back on path i
ResultArrives(i) == \E p \in Querying(paths[i]) : p \notin Querying(paths'[i])

\* C13: a query result that arrives on a path which has recorded success
\* changes nothing in the run's state: run.errors and run.peersSeen stay as
\* they are and no peer is admitted.
LateResultIsNoOp ==
  [][\A i \in PathIds :
       (paths[i].res # None /\ ResultArrives(i))
         => /\ errors' = errors
            /\ peersSeen' = peersSeen
            /\ admitted' = admitted]_vars

\* C14: the result slot of a path is written at most once: once path.res
\* holds a payload, no later step replaces it (a second success arriving on
\* the path does not overwrite the first).
ResWrittenOnce ==
  [][\A i \in PathIds :
       paths[i].res # None => paths'[i].res = paths[i].res]_vars

\* every queried peer has at most one entry in run.errors and only queried
\* peers have one, so run.errors is never longer than run.peersSeen has
\* members; a run that has completed with the run-failure has queried every
\* admitted peer and got a failure from each
ErrorsCounted ==
  /\ \A p \in Ids : Count(errors, QueryErr(p)) <= Min(1, queried[p])
  /\ \A k \in DOMAIN errors : errors[k].type = "query" /\ errors[k].peer \in peersSeen
  /\ Len(errors) <= Cardinality(peersSeen)
  /\ outcome.kind = "runfail" =>
       /\ Len(errors) = Cardinality(peersSeen)
       /\ \A p \in peersSeen : queried[p] = 1 /\ Count(errors, QueryErr(p)) = 1

\* C15 as stated: run.errors holds at most one entry per queried peer and is
\* never longer than run.peersSeen has members, the run-failure needs a failure
\* from every admitted peer, and a run that has completed after some query
\* returned success, closer peers or nothing has completed with a result.
ErrorsWithinSeen ==
  /\ ErrorsCounted
  /\ (outcome.calls > 0 /\ hist.nonFailure) => outcome.kind = "result"

\* C15: run.errors holds at most one entry per queried peer and is never
\* longer than run.peersSeen has members, the run-failure needs a failure from
\* every admitted peer, and a run that has completed after some query returned
\* success, closer peers or nothing has not completed with the run-failure: it
\* has completed with a result, or with the error of a frontier construction
\* or of an enqueue.
ErrorsWithinSeenAmended ==
  /\ ErrorsCounted
  /\ (outcome.calls > 0 /\ hist.nonFailure) =>
       \/ outcome.kind = "result"
       \/ /\ outcome.kind = "error"
          /\ hist.setupFailed \/ hist.enqueueFailed
          /\ outcome.err[1].type \in {"fromKey", "enqueue"}

\* C15 witness: run() has completed with a result although one query failed:
\* another query did not fail, and run.errors is shorter than run.peersSeen.
ErrorsWithinSeenWitness ==
  /\ outcome.kind = "result"
  /\ hist.nonFailure
  /\ Len(errors) >= 1
  /\ Len(errors) < Cardinality(peersSeen)

\* a step in which the query of peer p on path i returns a failure
FailureArrives(i, p) ==
  /\ p \in Querying(paths[i])
  /\ p \notin Querying(paths'[i])
  /\ Len(errors') > Len(errors)

NoDispatchAfterError ==
  [][\A i \in PathIds :
       paths'[i].cbErr # None =>
         Querying(paths'[i]) \subseteq Querying(paths[i])]_vars

\* C19: the completion callback of every path's scheduler has been invoked at
\* most once, and so has the callback the caller gave to run().
CallbacksOnce ==
  /\ \A i \in PathIds : paths[i].cbCalls <= 1
  /\ outcome.calls <= 1

\* C20: once run() has delivered a result, the set it delivered as finalSet
\* (run.peersSeen itself) keeps its members and the delivered list of path
\* payloads stays as it is.
ResultIsFinal ==
  [][outcome.kind = "result" =>
       /\ peersSeen' = peersSeen
       /\ outcome'.res = outcome.res]_vars

\* path i has signalled exhaustion: its callback was invoked without an error
\* and without a recorded success
Exhausted(i) ==
  /\ i \in PathIds
  /\ paths[i].cbCalls >= 1
  /\ paths[i].cbErr = None
  /\ paths[i].res = None

\* peer p waits on path i: it is in the frontier or pushed to the queue
Waiting(i, p) ==
  /\ i \in PathIds
  /\ p \in Range(paths[i].peersToQuery) \cup Range(paths[i].tasks)

\* path i has recorded success
Succeeded(i) == i \in PathIds /\ paths[i].res # None

\* an enqueue of path i has failed: a seed's, or a closer peer's whose error
\* the path has handed to the coordinator
EnqueueFailedOn(i) ==
  /\ i \in PathIds
  /\ paths[i].stage = "aborted" \/ paths[i].cbErr # None

\* no path other than the excused ones has a peer waiting
NoneWaiting(excused) ==
  \A i \in PathIds \ excused : \A p \in Peers : ~Waiting(i, p)

\* a path that has signalled exhaustion has no peer waiting
ExhaustedIsEmpty ==
  \A i \in PathIds : \A p \in Peers : Exhausted(i) => ~Waiting(i, p)

\* C17 as stated: when every callback that is due eventually runs, no peer
\* stays forever in the frontier or the queue of a path that does not record
\* success (it is dequeued and passed to the query function), and a path that
\* has signalled exhaustion has no peer waiting.
EventuallyQueried ==
  /\ []<>NoneWaiting({i \in PathIds : Succeeded(i)})
  /\ []ExhaustedIsEmpty

\* C17: when every callback that is due eventually runs, no peer stays forever
\* in the frontier or the queue of a path that neither records success nor
\* has an enqueue fail, and a path that has signalled exhaustion has no peer
\* waiting.
EventuallyQueriedAmended ==
  /\ []<>NoneWaiting({i \in PathIds : Succeeded(i) \/ EnqueueFailedOn(i)})
  /\ []ExhaustedIsEmpty

\* C17 witness: the only path started from one seed, every other peer came in
\* as a closer peer through the frontier, all four have been queried without
\* a failure, and the path has signalled exhaustion with nothing waiting.
EventuallyQueriedWitness ==
  /\ PathIds = {0}
  /\ Len(Seeds) = 1
  /\ \A p \in Peers : queried[p] = 1
  /\ errors = <<>>
  /\ ~hist.enqueueFailed
  /\ Exhausted(0)
  /\ paths[0].peersToQuery = <<>>

====
